---- MODULE Spec2Model ----
(***************************************************************************)
(* Model of the CV renderer service (src/app.py): the context normaliser   *)
(* normalize_context, the template downloader download_template and the    *)
(* render_cv request handler with its temporary files.                     *)
(***************************************************************************)
EXTENDS Integers, Sequences, FiniteSets, TLC

(***************************************************************************)
(* JSON values as Python holds them after json.loads.  A container (list   *)
(* or dict) carries the identity of the Python object, so that aliasing of *)
(* one object under two names can be expressed.                            *)
(***************************************************************************)
Null == [t |-> "null"]
Bool(b) == [t |-> "bool", b |-> b]
Num(n) == [t |-> "num", n |-> n]
Str(s) == [t |-> "str", s |-> s]
List(id, items) == [t |-> "list", id |-> id, items |-> items]
Dict(id, fields) == [t |-> "dict", id |-> id, fields |-> fields]

NoFields == [f \in {} |-> Null]

\* a looser type test: isinstance(v, (dict, list))
IsDictOrList(v) == v.t \in {"dict", "list"}

\* isinstance(v, dict)
IsDict(v) == v.t = "dict"

\* the keys of the defaults literal, in the order the literal lists them
SchemaOrder ==
  << "candidate", "target_title", "headline_keywords", "top_summary",
     "summary", "topkeywords", "tools", "functional_domains", "experience",
     "education", "certifications", "languages" >>

SchemaKeys == { SchemaOrder[i] : i \in 1..Len(SchemaOrder) }

CandidateFields == {"first_name", "last_name", "location", "phone", "email"}

ToolsFields == {"office_automation", "genai"}

ScalarKeys == {"target_title", "headline_keywords", "top_summary", "summary"}

\* the defaults literal evaluated by the call whose container objects are
\* tagged with alloc: every evaluation of the literal builds new objects
defaults(alloc) ==
  [ k \in SchemaKeys |->
      CASE k = "candidate" ->
             Dict(<<"def", alloc, k>>, [f \in CandidateFields |-> Str("")])
        [] k = "tools" ->
             Dict(<<"def", alloc, k>>,
                  [f \in ToolsFields |-> List(<<"def", alloc, k, f>>, <<>>)])
        [] k \in ScalarKeys -> Str("")
        [] OTHER -> List(<<"def", alloc, k>>, <<>>) ]

\* Python truthiness: not v
Falsy(v) ==
  CASE v.t = "null" -> TRUE
    [] v.t = "bool" -> ~v.b
    [] v.t = "num" -> v.n = 0
    [] v.t = "str" -> v.s = ""
    [] v.t = "list" -> v.items = <<>>
    [] OTHER -> DOMAIN v.fields = {}

\* a fill test on truthiness: not ctx.get(key)
NeedsDefaultFalsy(ctx, key) == key \notin DOMAIN ctx \/ Falsy(ctx[key])

\* a fill test on absence only: key not in ctx
NeedsDefaultAbsent(ctx, key) == key \notin DOMAIN ctx

\* the test of the fill loop: key not in ctx or ctx[key] is None
NeedsDefault(ctx, key) == key \notin DOMAIN ctx \/ ctx[key].t = "null"

\* ctx[key] = value
SetItem(ctx, key, value) ==
  [ k \in DOMAIN ctx \cup {key} |-> IF k = key THEN value ELSE ctx[k] ]

\* the fill loop over defaults.items(), from the i-th key on
RECURSIVE FillFrom(_, _, _)
FillFrom(ctx, d, i) ==
  IF i > Len(SchemaOrder) THEN ctx
  ELSE LET key == SchemaOrder[i]
       IN  FillFrom(IF NeedsDefault(ctx, key) THEN SetItem(ctx, key, d[key])
                    ELSE ctx, d, i + 1)

\* ctx.get(key)
Get(ctx, key) == IF key \in DOMAIN ctx THEN ctx[key] ELSE Null

\* if not isinstance(ctx.get(key), dict): ctx[key] = defaults[key]
Repair(ctx, d, key) ==
  IF ~IsDict(Get(ctx, key)) THEN SetItem(ctx, key, d[key]) ELSE ctx

\* normalize_context(ctx), its defaults literal evaluated with tag alloc
normalize_context(ctx, alloc) ==
  LET d == defaults(alloc)
  IN  Repair(Repair(FillFrom(ctx, d, 1), d, "candidate"), d, "tools")

(***************************************************************************)
(* Responses and errors of the HTTP layer.                                 *)
(***************************************************************************)
\* HTTPException(status_code=..., detail=f"<prefix>: {str(e)}")
HTTPException(status_code, prefix, e) ==
  [kind |-> "HTTPException", status_code |-> status_code,
   detail |-> <<prefix, e>>]

DocxMediaType ==
  "application/vnd.openxmlformats-officedocument.wordprocessingml.document"

\* a response labelled as a generic binary stream
OctetResponse(content) ==
  [kind |-> "Response", content |-> content,
   media_type |-> "application/octet-stream",
   disposition |-> "attachment; filename=CV.docx"]

\* Response(content=file_bytes, media_type=..., headers={...})
DocResponse(content) ==
  [kind |-> "Response", content |-> content,
   media_type |-> DocxMediaType,
   disposition |-> "attachment; filename=CV.docx"]

\* the handler of the render block with the status of a client error
RenderingErrorAs400(e) == HTTPException(400, "Document rendering error", e)

\* except Exception as e: raise HTTPException(500, "Document rendering error: ...")
RenderingError(e) == HTTPException(500, "Document rendering error", e)

\* except Exception as e: raise HTTPException(400, "Invalid cv_data JSON: ...")
InvalidCvData(e) == HTTPException(400, "Invalid cv_data JSON", e)

(***************************************************************************)
(* download_template.  A URL is the sequence of its characters; the reply  *)
(* of the network to the one GET is either a response (final status after  *)
(* redirects, body) or an exception of requests.                           *)
(***************************************************************************)
\* s.startswith(p)
StartsWith(s, p) == Len(s) >= Len(p) /\ SubSeq(s, 1, Len(p)) = p

HttpPrefix == <<"h", "t", "t", "p", ":", "/", "/">>
HttpsPrefix == <<"h", "t", "t", "p", "s", ":", "/", "/">>

HttpResponse(status_code, content) ==
  [kind |-> "response", status_code |-> status_code, content |-> content]
HttpFailure(cause) == [kind |-> "exception", cause |-> cause]

Returned(value, gets) == [kind |-> "return", value |-> value, gets |-> gets]
Raised(exc, gets) == [kind |-> "raise", exc |-> exc, gets |-> gets]

DownloadError(e) == HTTPException(400, "Template download error", e)

\* a downloader that tries the GET a second time when the first one failed
download_template_retry(url, http) ==
  IF ~(StartsWith(url, HttpPrefix) \/ StartsWith(url, HttpsPrefix))
  THEN Raised(DownloadError(<<"Invalid template URL">>), 0)
  ELSE IF http.kind = "exception"
  THEN Raised(DownloadError(<<http.cause>>), 2)
  ELSE IF http.status_code # 200
  THEN Raised(DownloadError(<<"Template download failed (HTTP", http.status_code>>), 2)
  ELSE Returned(http.content, 1)

\* a downloader that takes every status below 400 for a success
download_template_lax(url, http) ==
  IF ~(StartsWith(url, HttpPrefix) \/ StartsWith(url, HttpsPrefix))
  THEN Raised(DownloadError(<<"Invalid template URL">>), 0)
  ELSE IF http.kind = "exception"
  THEN Raised(DownloadError(<<http.cause>>), 1)
  ELSE IF http.status_code >= 400
  THEN Raised(DownloadError(<<"Template download failed (HTTP", http.status_code>>), 1)
  ELSE Returned(http.content, 1)

\* download_template(url) when the network answers the GET with http;
\* gets counts the calls of requests.get
download_template(url, http) ==
  IF ~(StartsWith(url, HttpPrefix) \/ StartsWith(url, HttpsPrefix))
  THEN Raised(DownloadError(<<"Invalid template URL">>), 0)
  ELSE IF http.kind = "exception"
  THEN Raised(DownloadError(<<http.cause>>), 1)
  ELSE IF http.status_code # 200
  THEN Raised(DownloadError(<<"Template download failed (HTTP", http.status_code>>), 1)
  ELSE Returned(http.content, 1)

(***************************************************************************)
(* Files and the templating engine.                                        *)
(***************************************************************************)
\* byte contents
Docx(name) == [kind |-> "docx", name |-> name]
EmptyFile == [kind |-> "empty"]
PartialFile == [kind |-> "partial"]
NoBytes == [kind |-> "none"]

\* what DocxTemplate writes for a template and a context
Merge(tpl, ctx) == [kind |-> "merged", tpl |-> tpl, ctx |-> ctx]

NoPath == <<>>

\* f"/tmp/template_{uuid}.docx"
TemplatePath(u) == <<"/tmp/template_", u, ".docx">>

\* f"/tmp/output_{uuid}.docx"
OutputPath(u) == <<"/tmp/output_", u, ".docx">>

\* the file system after writing content to path
WriteFile(files, path, content) ==
  [p \in DOMAIN files \cup {path} |-> IF p = path THEN content ELSE files[p]]

\* the file system after os.remove(path)
RemoveFile(files, path) == [p \in DOMAIN files \ {path} |-> files[p]]

(***************************************************************************)
(* State.                                                                  *)
(***************************************************************************)
VARIABLES
  nin,      \* normaliser alone: the mapping as the caller supplied it
  nctx,     \* normaliser alone: the mapping object, mutated in place
  ndone,    \* normaliser alone: normalize_context has returned
  ictx,     \* two calls: the mapping object of each call
  idone,    \* two calls: which calls have returned
  ncalls,   \* two calls: evaluations of the defaults literal so far
  muts,     \* two calls: mutations applied to results so far
  via,      \* two calls: the call through whose result the last mutation went
  durl,     \* downloader alone: the url argument
  dhttp,    \* downloader alone: the answer of the network to a GET
  dres,     \* downloader alone: what download_template returned or raised
  pc,       \* per request: the statement render_cv is about to execute
  cvdata,   \* per request: request.cv_data
  tb,       \* per request: template_bytes
  context,  \* per request: context
  tpath,    \* per request: template_path
  opath,    \* per request: output_path
  doc,      \* per request: the DocxTemplate object
  fbytes,   \* per request: file_bytes
  resp,     \* per request: what render_cv returned or raised
  gets,     \* per request: calls of requests.get
  log,      \* per request: the pipeline steps completed
  fs,       \* the files under /tmp: path -> content
  issued    \* the values uuid.uuid4() has returned

normVars == <<nin, nctx, ndone>>
isoVars == <<ictx, idone, ncalls, muts, via>>
dlVars == <<durl, dhttp, dres>>
locals == <<cvdata, tb, context, tpath, opath, doc, fbytes>>
pipeVars == <<pc, locals, resp, gets, log, fs, issued>>

(***************************************************************************)
(* Bounds.                                                                 *)
(***************************************************************************)
MaxPresent == 2      \* keys present in an input of the single-call runs
MaxIsoPresent == 1   \* keys present in an input of the two-call runs
MaxMut == 1          \* mutations of results in the two-call runs
NumReqs == 2         \* render_cv requests in flight together

Reqs == 1..NumReqs

(***************************************************************************)
(* Inputs of normalize_context: what json.loads can hand over.             *)
(***************************************************************************)
Shapes == {"null", "false", "zero", "empty", "list", "dict0", "dict1"}

\* the value of shape sh that caller c binds to key k; containers are the
\* caller's own objects
Sample(c, k, sh) ==
  CASE sh = "null" -> Null
    [] sh = "false" -> Bool(FALSE)
    [] sh = "zero" -> Num(0)
    [] sh = "empty" -> Str("")
    [] sh = "list" -> List(<<"in", c, k>>, <<Str("x")>>)
    [] sh = "dict0" -> Dict(<<"in", c, k>>, NoFields)
    [] OTHER -> Dict(<<"in", c, k>>, [f \in {"first_name"} |-> Str("Ada")])

InKeys == SchemaKeys \cup {"extra"}

\* m is a mapping caller c can supply: at most n of the keys, each bound to
\* one of the sample values
IsInput(m, c, keys, n) ==
  \E S \in SUBSET keys :
    /\ Cardinality(S) <= n
    /\ \E f \in [S -> Shapes] : m = [k \in S |-> Sample(c, k, f[k])]

IsoKeys == {"candidate", "tools", "experience"}

Calls == {1, 2}

NoCtx == [k \in {} |-> Null]

NormIdle == nin = NoCtx /\ nctx = NoCtx /\ ndone = FALSE
IsoIdle ==
  /\ ictx = [c \in Calls |-> NoCtx]
  /\ idone = {}
  /\ ncalls = 0
  /\ muts = 0
  /\ via = 0

NoResult == [kind |-> "none"]
NoDoc == [st |-> "none"]
NoFiles == [p \in {} |-> NoBytes]

DlIdle == durl = <<>> /\ dhttp = HttpFailure("none") /\ dres = NoResult
PipeIdle ==
  /\ pc = [r \in Reqs |-> "start"]
  /\ cvdata = [r \in Reqs |-> ""]
  /\ tb = [r \in Reqs |-> NoBytes]
  /\ context = [r \in Reqs |-> NoCtx]
  /\ tpath = [r \in Reqs |-> NoPath]
  /\ opath = [r \in Reqs |-> NoPath]
  /\ doc = [r \in Reqs |-> NoDoc]
  /\ fbytes = [r \in Reqs |-> NoBytes]
  /\ resp = [r \in Reqs |-> NoResult]
  /\ gets = [r \in Reqs |-> 0]
  /\ log = [r \in Reqs |-> {}]
  /\ fs = NoFiles
  /\ issued = {}

(***************************************************************************)
(* The normaliser alone: one call on a bounded input.                      *)
(***************************************************************************)
InitNorm ==
  /\ IsInput(nin, 1, InKeys, MaxPresent)
  /\ nctx = nin
  /\ ndone = FALSE
  /\ IsoIdle /\ DlIdle /\ PipeIdle

Normalize ==
  /\ ~ndone
  /\ nctx' = normalize_context(nctx, 1)
  /\ ndone' = TRUE
  /\ UNCHANGED <<nin, isoVars, dlVars, pipeVars>>

(***************************************************************************)
(* Two calls on independent mappings, and mutations of their results.      *)
(***************************************************************************)
InitIso ==
  /\ \E S1 \in SUBSET IsoKeys, S2 \in SUBSET IsoKeys :
       /\ Cardinality(S1) <= MaxIsoPresent
       /\ Cardinality(S2) <= MaxIsoPresent
       /\ \E f1 \in [S1 -> Shapes], f2 \in [S2 -> Shapes] :
            ictx = [c \in Calls |->
                      IF c = 1 THEN [k \in S1 |-> Sample(1, k, f1[k])]
                      ELSE [k \in S2 |-> Sample(2, k, f2[k])]]
  /\ idone = {}
  /\ ncalls = 0
  /\ muts = 0
  /\ via = 0
  /\ NormIdle /\ DlIdle /\ PipeIdle

\* defaults built once at import and shared by every call
SharedAlloc(n) == 0

\* the tag of the objects the next evaluation of the defaults literal builds
FreshAlloc(n) == n + 1

Call(c) ==
  /\ c \notin idone
  /\ ictx' = [ictx EXCEPT ![c] = normalize_context(ictx[c], FreshAlloc(ncalls))]
  /\ ncalls' = ncalls + 1
  /\ idone' = idone \cup {c}
  /\ UNCHANGED <<muts, via, normVars, dlVars, pipeVars>>

\* the object id mutated in place: a list gets an element appended, a dict
\* gets first_name set; every reference to the object sees the change
RECURSIVE Mutated(_, _)
Mutated(v, id) ==
  CASE v.t = "list" ->
         IF v.id = id THEN List(v.id, Append(v.items, Str("m")))
         ELSE List(v.id, [i \in DOMAIN v.items |-> Mutated(v.items[i], id)])
    [] v.t = "dict" ->
         IF v.id = id
         THEN Dict(v.id, [f \in DOMAIN v.fields \cup {"first_name"} |->
                            IF f = "first_name" THEN Str("m") ELSE v.fields[f]])
         ELSE Dict(v.id, [f \in DOMAIN v.fields |-> Mutated(v.fields[f], id)])
    [] OTHER -> v

\* the containers reachable from value v
RECURSIVE Objects(_)
Objects(v) ==
  CASE v.t = "list" ->
         {v.id} \cup UNION { Objects(v.items[i]) : i \in DOMAIN v.items }
    [] v.t = "dict" ->
         {v.id} \cup UNION { Objects(v.fields[f]) : f \in DOMAIN v.fields }
    [] OTHER -> {}

ObjectsOf(ctx) == UNION { Objects(ctx[k]) : k \in DOMAIN ctx }

\* the holder of result c mutates one container it reaches through it
Mutate(c) ==
  /\ c \in idone
  /\ muts < MaxMut
  /\ \E id \in ObjectsOf(ictx[c]) :
       ictx' = [d \in Calls |->
                  [k \in DOMAIN ictx[d] |-> Mutated(ictx[d][k], id)]]
  /\ muts' = muts + 1
  /\ via' = c
  /\ UNCHANGED <<idone, ncalls, normVars, dlVars, pipeVars>>

vars == <<normVars, isoVars, dlVars, pipeVars>>

NextNorm == Normalize
SpecNorm == InitNorm /\ [][NextNorm]_vars

NextIso == \E c \in Calls : Call(c) \/ Mutate(c)
SpecIso == InitIso /\ [][NextIso]_vars

(***************************************************************************)
(* The downloader alone: one call on a bounded url and network answer.     *)
(***************************************************************************)
Urls ==
  { <<"h", "t", "t", "p", ":", "/", "/", "a">>,
    <<"h", "t", "t", "p", "s", ":", "/", "/", "a">>,
    <<"H", "T", "T", "P", ":", "/", "/", "a">>,
    <<"f", "t", "p", ":", "/", "/", "a">>,
    <<"h", "t", "t", "p", ":", "/", "a">>,
    <<"h", "t", "t", "p", "s", ":", "a">>,
    <<"a", "h", "t", "t", "p", ":", "/", "/">>,
    <<"a">>,
    <<>> }

Statuses == {200, 201, 301, 404, 500}

HttpAnswers ==
  { HttpResponse(st, Docx(n)) : st \in Statuses, n \in {"A", "B"} }
    \cup { HttpFailure(c) : c \in {"timeout", "connection refused"} }

InitDl ==
  /\ durl \in Urls
  /\ dhttp \in HttpAnswers
  /\ dres = NoResult
  /\ NormIdle /\ IsoIdle /\ PipeIdle

DownloadAlone ==
  /\ dres = NoResult
  /\ dres' = download_template(durl, dhttp)
  /\ UNCHANGED <<durl, dhttp, normVars, isoVars, pipeVars>>

(***************************************************************************)
(* render_cv: concurrent requests, one statement at a time.                *)
(***************************************************************************)
\* request.cv_data texts and what json.loads makes of them for request r
CvTexts ==
  { "{bad", "[1]", "null", "{}", "{\"candidate\": {\"first_name\": \"Ada\"}}" }

JsonOk(v) == [kind |-> "return", value |-> v]
JsonError(e) == [kind |-> "raise", e |-> e]

JsonLoads(text, r) ==
  CASE text = "{bad" -> JsonError(<<"Expecting property name">>)
    [] text = "[1]" -> JsonOk(List(<<"in", r>>, <<Num(1)>>))
    [] text = "null" -> JsonOk(Null)
    [] text = "{}" -> JsonOk(Dict(<<"in", r>>, NoFields))
    [] OTHER ->
         JsonOk(Dict(<<"in", r>>,
                     [k \in {"candidate"} |->
                        Dict(<<"in", r, k>>,
                             [f \in {"first_name"} |-> Str("Ada")])]))

PipeUrls ==
  { <<"h", "t", "t", "p", ":", "/", "/", "a">>,
    <<"f", "t", "p", ":", "/", "/", "a">> }

PipeAnswers ==
  { HttpResponse(200, Docx("A")), HttpResponse(200, Docx("B")),
    HttpResponse(404, Docx("A")), HttpFailure("timeout") }

Uuids == 1..(2 * NumReqs)

\* uuid4 with a value it has returned before among its outcomes
uuid4_reused(used) == { u \in Uuids : \A v \in Uuids : u <= v }

\* uuid.uuid4(): a value not returned before; the values are interchangeable,
\* the least unused one stands for all of them
uuid4(used) == { u \in Uuids \ used : \A v \in Uuids \ used : u <= v }

\* render_cv leaves with result or exception x; its locals die with it
Finish(r, x) ==
  /\ pc' = [pc EXCEPT ![r] = "done"]
  /\ resp' = [resp EXCEPT ![r] = x]
  /\ cvdata' = [cvdata EXCEPT ![r] = ""]
  /\ tb' = [tb EXCEPT ![r] = NoBytes]
  /\ context' = [context EXCEPT ![r] = NoCtx]
  /\ doc' = [doc EXCEPT ![r] = NoDoc]
  /\ fbytes' = [fbytes EXCEPT ![r] = NoBytes]

Goto(r, label, step) ==
  /\ pc' = [pc EXCEPT ![r] = label]
  /\ log' = [log EXCEPT ![r] = @ \cup {step}]

others == <<normVars, isoVars, dlVars>>

\* template_bytes = download_template(request.template_url)
Download(r) ==
  /\ pc[r] = "start"
  /\ \E url \in PipeUrls, http \in PipeAnswers, cv \in CvTexts :
       LET d == download_template(url, http)
       IN  /\ gets' = [gets EXCEPT ![r] = d.gets]
           /\ IF d.kind = "return"
              THEN /\ tb' = [tb EXCEPT ![r] = d.value]
                   /\ cvdata' = [cvdata EXCEPT ![r] = cv]
                   /\ Goto(r, "parse", "download")
                   /\ UNCHANGED <<context, doc, fbytes, resp>>
              ELSE Finish(r, d.exc) /\ UNCHANGED log
  /\ UNCHANGED <<tpath, opath, fs, issued, others>>

\* context = json.loads(request.cv_data); the isinstance test;
\* context = normalize_context(context)
Parse(r) ==
  /\ pc[r] = "parse"
  /\ LET p == JsonLoads(cvdata[r], r)
     IN  IF p.kind = "raise"
         THEN Finish(r, InvalidCvData(p.e)) /\ UNCHANGED log
         ELSE IF ~IsDict(p.value)
         THEN /\ Finish(r, InvalidCvData(<<"cv_data must be a JSON object">>))
              /\ UNCHANGED log
         ELSE /\ context' = [context EXCEPT ![r] = normalize_context(p.value.fields, r)]
              /\ Goto(r, "write", "parse")
              /\ UNCHANGED <<cvdata, tb, doc, fbytes, resp>>
  /\ UNCHANGED <<tpath, opath, gets, fs, issued, others>>

\* the two uuid4 paths; with open(template_path, "wb") as f: f.write(...)
WriteTemplate(r) ==
  /\ pc[r] = "write"
  /\ \E u1 \in uuid4(issued) :
     \E u2 \in uuid4(issued \cup {u1}) :
     \E io \in {"ok", "open fails", "write fails"} :
       /\ issued' = issued \cup {u1, u2}
       /\ tpath' = [tpath EXCEPT ![r] = TemplatePath(u1)]
       /\ opath' = [opath EXCEPT ![r] = OutputPath(u2)]
       /\ fs' = CASE io = "ok" -> WriteFile(fs, TemplatePath(u1), tb[r])
                  [] io = "write fails" -> WriteFile(fs, TemplatePath(u1), EmptyFile)
                  [] OTHER -> fs
       /\ IF io = "ok"
          THEN Goto(r, "load", "write") /\ UNCHANGED <<cvdata, tb, context, doc, fbytes, resp>>
          ELSE Finish(r, RenderingError(<<io>>)) /\ UNCHANGED log
  /\ UNCHANGED <<gets, others>>

\* doc = DocxTemplate(template_path)
Load(r) ==
  /\ pc[r] = "load"
  /\ \E io \in {"ok", "engine load fails"} :
       IF io = "ok" /\ tpath[r] \in DOMAIN fs
       THEN /\ doc' = [doc EXCEPT ![r] = [st |-> "loaded", tpl |-> fs[tpath[r]]]]
            /\ Goto(r, "render", "load")
            /\ UNCHANGED <<cvdata, tb, context, fbytes, resp>>
       ELSE Finish(r, RenderingError(<<"engine load fails">>)) /\ UNCHANGED log
  /\ UNCHANGED <<tpath, opath, gets, fs, issued, others>>

\* doc.render(context)
Render(r) ==
  /\ pc[r] = "render"
  /\ \E io \in {"ok", "engine render fails"} :
       IF io = "ok"
       THEN /\ doc' = [doc EXCEPT ![r] =
                         [st |-> "rendered", out |-> Merge(doc[r].tpl, context[r])]]
            /\ Goto(r, "save", "render")
            /\ UNCHANGED <<cvdata, tb, context, fbytes, resp>>
       ELSE Finish(r, RenderingError(<<io>>)) /\ UNCHANGED log
  /\ UNCHANGED <<tpath, opath, gets, fs, issued, others>>

\* doc.save(output_path)
Save(r) ==
  /\ pc[r] = "save"
  /\ \E io \in {"ok", "engine save fails", "engine save breaks off"} :
       /\ fs' = CASE io = "ok" -> WriteFile(fs, opath[r], doc[r].out)
                  [] io = "engine save breaks off" -> WriteFile(fs, opath[r], PartialFile)
                  [] OTHER -> fs
       /\ IF io = "ok"
          THEN Goto(r, "read", "save") /\ UNCHANGED <<cvdata, tb, context, doc, fbytes, resp>>
          ELSE Finish(r, RenderingError(<<io>>)) /\ UNCHANGED log
  /\ UNCHANGED <<tpath, opath, gets, issued, others>>

\* with open(output_path, "rb") as f: file_bytes = f.read()
ReadOutput(r) ==
  /\ pc[r] = "read"
  /\ \E io \in {"ok", "read fails"} :
       IF io = "ok" /\ opath[r] \in DOMAIN fs
       THEN /\ fbytes' = [fbytes EXCEPT ![r] = fs[opath[r]]]
            /\ Goto(r, "rm_template", "read")
            /\ UNCHANGED <<cvdata, tb, context, doc, resp>>
       ELSE Finish(r, RenderingError(<<"read fails">>)) /\ UNCHANGED log
  /\ UNCHANGED <<tpath, opath, gets, fs, issued, others>>

\* os.remove(template_path)
RemoveTemplate(r) ==
  /\ pc[r] = "rm_template"
  /\ \E io \in {"ok", "remove fails"} :
       IF io = "ok" /\ tpath[r] \in DOMAIN fs
       THEN /\ fs' = RemoveFile(fs, tpath[r])
            /\ Goto(r, "rm_output", "rm_template")
            /\ UNCHANGED <<cvdata, tb, context, doc, fbytes, resp>>
       ELSE /\ Finish(r, RenderingError(<<"remove fails">>))
            /\ UNCHANGED <<log, fs>>
  /\ UNCHANGED <<tpath, opath, gets, issued, others>>

\* os.remove(output_path); return Response(content=file_bytes, ...)
RemoveOutput(r) ==
  /\ pc[r] = "rm_output"
  /\ \E io \in {"ok", "remove fails"} :
       IF io = "ok" /\ opath[r] \in DOMAIN fs
       THEN /\ fs' = RemoveFile(fs, opath[r])
            /\ Goto(r, "done", "rm_output")
            /\ resp' = [resp EXCEPT ![r] = DocResponse(fbytes[r])]
            /\ UNCHANGED <<cvdata, tb, context, doc, fbytes>>
       ELSE /\ Finish(r, RenderingError(<<"remove fails">>))
            /\ UNCHANGED <<log, fs>>
  /\ UNCHANGED <<tpath, opath, gets, issued, others>>

Init == PipeIdle /\ NormIdle /\ IsoIdle /\ DlIdle

Next ==
  \E r \in Reqs :
    \/ Download(r)
    \/ Parse(r)
    \/ WriteTemplate(r)
    \/ Load(r)
    \/ Render(r)
    \/ Save(r)
    \/ ReadOutput(r)
    \/ RemoveTemplate(r)
    \/ RemoveOutput(r)

Spec == Init /\ [][Next]_vars

NextDl == DownloadAlone
SpecDl == InitDl /\ [][NextDl]_vars

(***************************************************************************)
(* Properties of normalize_context.                                        *)
(***************************************************************************)
\* v is the schema default of key k (object identity aside)
IsSchemaDefault(k, v) ==
  CASE k = "candidate" ->
         /\ v.t = "dict"
         /\ DOMAIN v.fields = {"first_name", "last_name", "location", "phone", "email"}
         /\ \A f \in DOMAIN v.fields : v.fields[f] = [t |-> "str", s |-> ""]
    [] k = "tools" ->
         /\ v.t = "dict"
         /\ DOMAIN v.fields = {"office_automation", "genai"}
         /\ \A f \in DOMAIN v.fields :
              v.fields[f].t = "list" /\ v.fields[f].items = <<>>
    [] k \in {"target_title", "headline_keywords", "top_summary", "summary"} ->
         v = [t |-> "str", s |-> ""]
    [] OTHER -> v.t = "list" /\ v.items = <<>>

Supplied(k) == k \in DOMAIN nin /\ nin[k].t # "null"

\* C3 as stated: every schema key supplied with a non-null value is still
\* bound to exactly that value after normalize_context.
C3_NonClobberingAll ==
  ndone => \A k \in SchemaKeys : Supplied(k) => nctx[k] = nin[k]

\* C3 amended: every schema key supplied with a non-null value (for
\* candidate and tools: with an object) is still bound to exactly that value
\* after normalize_context.
C3_NonClobbering ==
  ndone =>
    \A k \in SchemaKeys :
      (Supplied(k) /\ (k \in {"candidate", "tools"} => nin[k].t = "dict"))
        => nctx[k] = nin[k]

C3_Witness ==
  /\ ndone
  /\ "summary" \in DOMAIN nin
  /\ nin["summary"].t = "bool"
  /\ nctx["summary"].t = "bool"
  /\ "candidate" \in DOMAIN nin
  /\ nin["candidate"].t = "dict"

\* C4: after normalize_context all twelve schema keys are present, none is
\* null, and each key that was absent or null holds its schema default.
C4_DefaultCompleteness ==
  ndone =>
    /\ SchemaKeys \subseteq DOMAIN nctx
    /\ Cardinality(SchemaKeys) = 12
    /\ \A k \in SchemaKeys :
         /\ nctx[k].t # "null"
         /\ ~Supplied(k) => IsSchemaDefault(k, nctx[k])

C4_Witness ==
  /\ ndone
  /\ "experience" \in DOMAIN nin
  /\ nin["experience"].t = "null"
  /\ "tools" \notin DOMAIN nin
  /\ nctx["experience"].t = "list"
  /\ nctx["tools"].t = "dict"

\* C5: candidate or tools bound to a non-object is replaced by the schema
\* default object; bound to an object, it is kept exactly as supplied.
C5_TypeRepair ==
  ndone =>
    \A k \in {"candidate", "tools"} :
      k \in DOMAIN nin =>
        IF nin[k].t = "dict" THEN nctx[k] = nin[k]
        ELSE IsSchemaDefault(k, nctx[k])

C5_Witness ==
  /\ ndone
  /\ "candidate" \in DOMAIN nin
  /\ nin["candidate"].t = "list"
  /\ nctx["candidate"].t = "dict"
  /\ "tools" \in DOMAIN nin
  /\ nin["tools"].t = "dict"
  /\ DOMAIN nin["tools"].fields = {}
  /\ nctx["tools"] = nin["tools"]

\* C6: a mutation made through the result of one call never changes what
\* the result of the other call shows.
C6_Isolation ==
  [][\A c \in Calls : (muts' # muts /\ via' # c) => ictx'[c] = ictx[c]]_vars

C6_Witness ==
  /\ idone = Calls
  /\ muts = 1
  /\ via = 1
  /\ ictx[1]["experience"].id[1] = "def"
  /\ ictx[1]["experience"].items # <<>>
  /\ ictx[2]["experience"].id[1] = "def"
  /\ ictx[2]["experience"].items = <<>>

(***************************************************************************)
(* Properties of download_template.                                        *)
(***************************************************************************)
\* the url is <scheme>://... with scheme http or https
HasHttpScheme(url) ==
  \E n \in {4, 5} :
    /\ Len(url) >= n + 3
    /\ SubSeq(url, 1, n) \in { <<"h", "t", "t", "p">>, <<"h", "t", "t", "p", "s">> }
    /\ SubSeq(url, n + 1, n + 3) = <<":", "/", "/">>

Got200 == dhttp.kind = "response" /\ dhttp.status_code = 200

\* C9: download_template returns the body exactly when the scheme is http or
\* https and the status is 200; another scheme is rejected without a GET; a
\* status other than 200 fails with a message carrying the status; a network
\* exception fails with a message carrying its cause.
C9_AcquisitionOutcome ==
  dres # NoResult =>
    /\ dres.kind = "return" <=> (HasHttpScheme(durl) /\ Got200)
    /\ dres.kind = "return" => dres.value = dhttp.content /\ dres.gets = 1
    /\ ~HasHttpScheme(durl) => dres.kind = "raise" /\ dres.gets = 0
    /\ dres.kind = "raise" =>
         /\ dres.exc.kind = "HTTPException"
         /\ dres.exc.detail[1] = "Template download error"
    /\ (HasHttpScheme(durl) /\ dhttp.kind = "response" /\ dhttp.status_code # 200) =>
         /\ dres.gets = 1
         /\ Len(dres.exc.detail[2]) = 2
         /\ dres.exc.detail[2][2] = dhttp.status_code
    /\ (HasHttpScheme(durl) /\ dhttp.kind = "exception") =>
         /\ dres.gets = 1
         /\ dres.exc.detail[2] = <<dhttp.cause>>

C9_Witness ==
  /\ dres.kind = "raise"
  /\ HasHttpScheme(durl)
  /\ dhttp.kind = "response"
  /\ dhttp.status_code = 404
  /\ dres.exc.detail[2][2] = 404

(***************************************************************************)
(* Properties of render_cv.                                                *)
(***************************************************************************)
Done(r) == pc[r] = "done"
Failed(r) == Done(r) /\ resp[r].kind = "HTTPException"
Succeeded(r) == Done(r) /\ resp[r].kind = "Response"

AllSteps ==
  {"download", "parse", "write", "load", "render", "save", "read",
   "rm_template", "rm_output"}

\* C1: when a request completes, on whatever exit path, neither of its two
\* working files exists any more.
C1_CleanupOnEveryExit ==
  \A r \in Reqs :
    Done(r) => tpath[r] \notin DOMAIN fs /\ opath[r] \notin DOMAIN fs

\* C2: a completed request ended in a document or in one HTTP error; the
\* error has status 400 when the download or the parsing of cv_data failed
\* and status 500 when a later step failed.
C2_StructuredErrors ==
  \A r \in Reqs :
    Done(r) =>
      /\ resp[r].kind \in {"Response", "HTTPException"}
      /\ resp[r].kind = "HTTPException" =>
           resp[r].status_code =
             (IF {"download", "parse"} \subseteq log[r] THEN 500 ELSE 400)
      /\ resp[r].kind = "Response" => log[r] = AllSteps

C2_Witness ==
  \E r, s \in Reqs :
    /\ Failed(r) /\ resp[r].status_code = 400 /\ log[r] = {"download"}
    /\ Failed(s) /\ resp[s].status_code = 500
    /\ log[s] = {"download", "parse", "write", "load"}

\* C7: the template and output paths of a request differ from each other and
\* from every path of every other request, and a returned document is the
\* merge of the request's own template and context.
C7_UniqueWorkingAreas ==
  /\ \A r \in Reqs : tpath[r] # NoPath => tpath[r] # opath[r]
  /\ \A r, s \in Reqs :
       (r # s /\ tpath[r] # NoPath /\ tpath[s] # NoPath) =>
         {tpath[r], opath[r]} \cap {tpath[s], opath[s]} = {}
  /\ \A r \in Reqs :
       /\ doc[r].st = "loaded" => doc[r].tpl = tb[r]
       /\ fbytes[r] # NoBytes => fbytes[r] = Merge(tb[r], context[r])
       /\ resp[r].kind = "Response" =>
            resp[r].content = Merge(tb[r], context[r])

\* request 2 drew its paths first and is still at work on its files when
\* request 1, with another template, has returned its document
C7_Witness ==
  /\ Succeeded(1)
  /\ pc[2] = "read"
  /\ tpath[2] = <<"/tmp/template_", 1, ".docx">>
  /\ tpath[2] \in DOMAIN fs
  /\ opath[2] \in DOMAIN fs
  /\ tb[1] # tb[2]

\* C8: a request issues at most one GET, and a request whose download failed
\* has ended in an error without performing any later step.
C8_NoRetries ==
  \A r \in Reqs :
    /\ gets[r] <= 1
    /\ (pc[r] # "start" /\ "download" \notin log[r]) =>
         /\ Failed(r)
         /\ log[r] = {}
         /\ tpath[r] = NoPath /\ opath[r] = NoPath
         /\ context[r] = NoCtx /\ doc[r] = NoDoc

C8_Witness ==
  \E r \in Reqs :
    /\ Failed(r)
    /\ gets[r] = 1
    /\ log[r] = {}
    /\ resp[r].detail[2] = <<"timeout">>

\* C10: a document response has the docx media type and the CV.docx
\* attachment name, comes only after all steps succeeded and carries the
\* whole merged output read back; a request with a failed step ends in an
\* error that carries no document.
C10_NoPartialDocuments ==
  \A r \in Reqs :
    /\ resp[r].kind = "Response" =>
         /\ log[r] = AllSteps
         /\ resp[r].media_type =
              "application/vnd.openxmlformats-officedocument.wordprocessingml.document"
         /\ resp[r].disposition = "attachment; filename=CV.docx"
         /\ resp[r].content = fbytes[r]
         /\ resp[r].content.kind = "merged"
    /\ (Done(r) /\ log[r] # AllSteps) =>
         /\ resp[r].kind = "HTTPException"
         /\ "content" \notin DOMAIN resp[r]

C10_Witness ==
  \E r, s \in Reqs :
    /\ Succeeded(r)
    /\ Failed(s)
    /\ opath[s] \in DOMAIN fs
    /\ fs[opath[s]] = PartialFile

====
